---- MODULE Spec2Model ----
(***************************************************************************)
(* Tournament scheduling of ShiftTake/SportsPyscho.                        *)
(*                                                                         *)
(* Two programs are modelled, each with its own specification:             *)
(*   SpecModel  the Tournament class (api/models/tournament.js) driven     *)
(*              through TournamentController (createTournament,            *)
(*              startTournament, updateMatchResult);                       *)
(*   SpecRoute  the express router of the tournaments API module           *)
(*              (create, register, start, submit result) over the          *)
(*              module-level arrays `tournaments` and `matches`.           *)
(* Timestamps (createdAt, updatedAt, completedAt) and free-text fields     *)
(* are not part of the state: no claim reads them.                         *)
(***************************************************************************)
EXTENDS Integers, Sequences, FiniteSets, TLC

VARIABLES
  ctlTournaments,  \* TournamentController.tournaments: <<>> or <<tournament>>
  ctlResult,       \* what the controller's last call returned
  ctlOps,          \* number of updateMatchResult calls made so far
  tournaments,     \* router module: let tournaments = []
  matches,         \* router module: let matches = []
  response,        \* the router's last HTTP response
  nSubmits,        \* number of improper result submissions made to the router
  nStarts          \* number of start requests that generated matches

vars == <<ctlTournaments, ctlResult, ctlOps, tournaments, matches, response,
          nSubmits, nStarts>>

ctlVars == <<ctlTournaments, ctlResult, ctlOps>>
routeVars == <<tournaments, matches, response, nSubmits, nStarts>>

-----------------------------------------------------------------------------
(* Bounds of the model.                                                    *)

MaxN == 5          \* participants of a played elimination tournament
MaxRR == 3         \* participants of a played round-robin tournament
MaxOps == 1        \* improper updateMatchResult calls per behaviour
MaxPerm == 4       \* createTournament: every list of distinct ids up to this length
MaxBuild == 9      \* createTournament: the lists a, b, c, ... up to this length
MaxUsers == 4      \* users that may register through the router
MaxSubmits == 1    \* improper result submissions per behaviour of the router
MaxStarts == 2     \* start requests that generate matches, per behaviour

(* The frontend refuses to create a tournament with fewer participants.    *)
MinN == 2

(* POST /:id/start: "Minimum 4 participants required to start tournament" *)
MinToStart == 4

-----------------------------------------------------------------------------
(* Values.                                                                 *)

Null == "null"                \* JavaScript null / undefined
Outsider == "zz"              \* an id that is registered nowhere
AllIds == <<"a", "b", "c", "d", "e", "f", "g", "h", "i", "j", "k", "l">>
ZeroScore == <<0, 0>>         \* score: { participant1: 0, participant2: 0 }
SomeScore == <<2, 1>>         \* the score payload of a submitted result

Truthy(v) == v # Null

RECURSIVE Pow2(_)
Pow2(k) == IF k = 0 THEN 1 ELSE 2 * Pow2(k - 1)

(* Math.ceil(Math.log2(n)) for n >= 1: the least k with 2^k >= n.          *)
RECURSIVE CeilLog2From(_, _)
CeilLog2From(n, k) == IF Pow2(k) >= n THEN k ELSE CeilLog2From(n, k + 1)
(* Rounding the logarithm down instead of up.                              *)
FloorLog2(n) == IF Pow2(CeilLog2From(n, 0)) = n THEN CeilLog2From(n, 0)
                ELSE CeilLog2From(n, 0) - 1

CeilLog2(n) == CeilLog2From(n, 0)

-----------------------------------------------------------------------------
(* Tournament class: api/models/tournament.js                              *)

(* Match ids are template strings; they are kept as their token lists so   *)
(* that formatting and parsing are separate computations.                  *)
(*   `round${r}_match${i}`  and  `match${k}`                               *)
Lit(text) == <<"lit", text>>
Num(n) == <<"num", n>>
BracketMatchId(r, i) == <<Lit("round"), Num(r), Lit("_"), Lit("match"), Num(i)>>
ScheduleMatchId(k) == <<Lit("match"), Num(k)>>

(* parseInt(matchId.split('match')[1]): the number after the first token   *)
(* "match" of the id.                                                      *)
RECURSIVE AfterMatchToken(_)
AfterMatchToken(id) ==
  IF id = <<>> THEN <<>>
  ELSE IF Head(id) = Lit("match") THEN Tail(id) ELSE AfterMatchToken(Tail(id))

ParseMatchNumber(id) == Head(AfterMatchToken(id))[2]

(* Comparator of updateStandings: points descending, then wins descending. *)
CompareStandings(a, b) ==
  IF b.points # a.points THEN b.points - a.points ELSE b.wins - a.wins

(* Array.prototype.sort is stable: insertion from the left, an element     *)
(* goes in front of the first one the comparator puts it strictly before.  *)
RECURSIVE InsertStanding(_, _)
InsertStanding(s, x) ==
  IF s = <<>> THEN <<x>>
  ELSE IF CompareStandings(x, Head(s)) < 0 THEN <<x>> \o s
       ELSE <<Head(s)>> \o InsertStanding(Tail(s), x)

RECURSIVE SortStandings(_)
SortStandings(s) ==
  IF s = <<>> THEN <<>>
  ELSE InsertStanding(SortStandings(SubSeq(s, 1, Len(s) - 1)), s[Len(s)])

(* A first round that forgets the auto-advance of a bye.                   *)
FirstRoundMatchNoBye(pids, i) ==
  LET n == Len(pids)
  IN [matchId |-> BracketMatchId(1, i + 1), round |-> 1,
      participant1 |-> IF 2 * i < n THEN pids[2 * i + 1] ELSE Null,
      participant2 |-> IF 2 * i + 1 < n THEN pids[2 * i + 2] ELSE Null,
      winner |-> Null, score |-> ZeroScore]

(* generateEliminationBracket, first round: participants fill the slots in *)
(* order; a match without a second participant is won by the first.        *)
FirstRoundMatch(pids, i) ==
  LET n == Len(pids)
      p1 == IF 2 * i < n THEN pids[2 * i + 1] ELSE Null
      p2 == IF 2 * i + 1 < n THEN pids[2 * i + 2] ELSE Null
  IN [matchId |-> BracketMatchId(1, i + 1), round |-> 1,
      participant1 |-> p1, participant2 |-> p2,
      winner |-> IF ~Truthy(p2) THEN p1 ELSE Null,
      score |-> ZeroScore]

EmptyMatch(round, i) ==
  [matchId |-> BracketMatchId(round, i + 1), round |-> round,
   participant1 |-> Null, participant2 |-> Null,
   winner |-> Null, score |-> ZeroScore]

generateEliminationBracket(pids) ==
  LET numParticipants == Len(pids)
      numRounds == CeilLog2(numParticipants)
      bracketSize == Pow2(numRounds)
      RoundOf(round) ==
        IF round = 1
        THEN [i \in 1..(bracketSize \div 2) |-> FirstRoundMatch(pids, i - 1)]
        ELSE [i \in 1..(bracketSize \div Pow2(round)) |-> EmptyMatch(round, i - 1)]
  IN [rounds |-> [round \in 1..numRounds |-> RoundOf(round)],
      size |-> bracketSize]

(* generateRoundRobinSchedule: the circle method over the participants,    *)
(* padded with null when their number is odd.                              *)
(* A rotation that does not keep the first participant fixed.              *)
RotateAll(ps) ==
  IF Len(ps) < 2 THEN ps ELSE <<ps[Len(ps)]>> \o SubSeq(ps, 1, Len(ps) - 1)

Rotate(ps) ==
  \* participants.splice(1, 0, participants.pop())
  IF Len(ps) < 2 THEN ps
  ELSE <<ps[1], ps[Len(ps)]>> \o SubSeq(ps, 2, Len(ps) - 1)

RECURSIVE RoundPairs(_, _, _)
RoundPairs(ps, round, i) ==
  \* the matches of one round from position i on, without their ids
  IF 2 * i >= Len(ps) THEN <<>>
  ELSE LET participant1 == ps[i + 1]
           participant2 == ps[Len(ps) - i]
           rest == RoundPairs(ps, round, i + 1)
       IN IF Truthy(participant1) /\ Truthy(participant2)
          THEN <<[round |-> round + 1, participant1 |-> participant1,
                  participant2 |-> participant2]>> \o rest
          ELSE rest

RECURSIVE SchedulePairs(_, _, _)
SchedulePairs(ps, round, numRounds) ==
  IF round >= numRounds THEN <<>>
  ELSE RoundPairs(ps, round, 0) \o SchedulePairs(Rotate(ps), round + 1, numRounds)

(* A schedule that loses the round of its matches: all are in round 1.     *)
generateScheduleInOneRound(pids) ==
  LET participants == IF Len(pids) % 2 # 0 THEN Append(pids, Null) ELSE pids
      pairs == SchedulePairs(participants, 0, Len(participants) - 1)
  IN [k \in 1..Len(pairs) |->
        [matchId |-> ScheduleMatchId(k), round |-> 1,
         participant1 |-> pairs[k].participant1,
         participant2 |-> pairs[k].participant2,
         winner |-> Null, score |-> ZeroScore, completed |-> FALSE]]

generateRoundRobinSchedule(pids) ==
  LET participants == IF Len(pids) % 2 # 0 THEN Append(pids, Null) ELSE pids
      numRounds == Len(participants) - 1
      pairs == SchedulePairs(participants, 0, numRounds)
  IN [k \in 1..Len(pairs) |->
        [matchId |-> ScheduleMatchId(k), round |-> pairs[k].round,
         participant1 |-> pairs[k].participant1,
         participant2 |-> pairs[k].participant2,
         winner |-> Null, score |-> ZeroScore, completed |-> FALSE]]

(* The index of the first match of ms with the given id, 0 when none:      *)
(* Array.prototype.find.                                                   *)
FindMatch(ms, matchId) ==
  LET hits == {k \in 1..Len(ms) : ms[k].matchId = matchId}
  IN IF hits = {} THEN 0 ELSE CHOOSE k \in hits : \A j \in hits : k <= j

(* The round of the bracket that holds the match, 0 when none.             *)
FindRound(rounds, matchId) ==
  LET hits == {r \in 1..Len(rounds) : FindMatch(rounds[r], matchId) # 0}
  IN IF hits = {} THEN 0 ELSE CHOOSE r \in hits : \A j \in hits : r <= j

(* An advance that puts every winner in the first slot of the next match.  *)
advanceWinnerToFirstSlot(t, match) ==
  LET rounds == t.bracket[1].rounds
  IN IF ~Truthy(match.winner) \/ match.round >= Len(rounds) THEN t
     ELSE
       LET nextMatchIndex == (ParseMatchNumber(match.matchId) - 1) \div 2
           fed == [rounds[match.round + 1][nextMatchIndex + 1]
                     EXCEPT !.participant1 = match.winner]
           rounds2 == [rounds EXCEPT ![match.round + 1][nextMatchIndex + 1] = fed]
           t2 == [t EXCEPT !.bracket = <<[t.bracket[1] EXCEPT !.rounds = rounds2]>>]
       IN IF match.round = Len(rounds) - 1
          THEN [t2 EXCEPT !.winnerId = match.winner, !.status = "completed"]
          ELSE t2

(* advanceWinnerToNextRound(match) on tournament t, whose bracket already  *)
(* holds the match's new winner.                                           *)
advanceWinnerToNextRound(t, match) ==
  LET rounds == t.bracket[1].rounds
  IN IF ~Truthy(match.winner) \/ match.round >= Len(rounds) THEN t
     ELSE
       LET matchIndex == ParseMatchNumber(match.matchId) - 1
           nextMatchIndex == matchIndex \div 2
           nextMatch == rounds[match.round + 1][nextMatchIndex + 1]
           fed == IF matchIndex % 2 = 0
                  THEN [nextMatch EXCEPT !.participant1 = match.winner]
                  ELSE [nextMatch EXCEPT !.participant2 = match.winner]
           rounds2 == [rounds EXCEPT ![match.round + 1][nextMatchIndex + 1] = fed]
           t2 == [t EXCEPT !.bracket = <<[t.bracket[1] EXCEPT !.rounds = rounds2]>>]
       IN \* "Check if this is the final match"
          IF match.round = Len(rounds) - 1
          THEN [t2 EXCEPT !.winnerId = match.winner, !.status = "completed"]
          ELSE t2

(* updateStandings throws a TypeError when a completed match names a       *)
(* winner that has no standings entry (standings[match.winner].wins++).    *)
StandingsThrow(t) ==
  \E k \in 1..Len(t.matches) :
     /\ t.matches[k].completed
     /\ Truthy(t.matches[k].winner)
     /\ \A i \in 1..Len(t.participantIds) : t.participantIds[i] # t.matches[k].winner

LoserId(match) ==
  IF match.participant1 = match.winner THEN match.participant2 ELSE match.participant1

StandingOf(t, pid) ==
  LET counted == {k \in 1..Len(t.matches) :
                    t.matches[k].completed /\ Truthy(t.matches[k].winner)}
      wins == Cardinality({k \in counted : t.matches[k].winner = pid})
      losses == Cardinality({k \in counted : LoserId(t.matches[k]) = pid})
  IN [participantId |-> pid, wins |-> wins, losses |-> losses, points |-> 3 * wins]

(* updateStandings() when it does not throw.                               *)
updateStandings(t) ==
  LET standings == SortStandings(
          [i \in 1..Len(t.participantIds) |-> StandingOf(t, t.participantIds[i])])
      allComplete == \A k \in 1..Len(t.matches) : t.matches[k].completed
      t2 == [t EXCEPT !.standings = standings]
  IN IF allComplete /\ Len(standings) > 0
     THEN [t2 EXCEPT !.winnerId = standings[1].participantId, !.status = "completed"]
     ELSE t2

(* Tournament.updateMatchResult(matchId, winnerId, score): the tournament  *)
(* afterwards and what the call returned ("true", "false" or "throw").     *)
updateMatchResult(t, matchId, winnerId, score) ==
  IF t.type = "elimination" /\ t.bracket # <<>>
  THEN LET rounds == t.bracket[1].rounds
           r == FindRound(rounds, matchId)
       IN IF r = 0 THEN [t |-> t, ret |-> "false"]
          ELSE LET k == FindMatch(rounds[r], matchId)
                   match == [rounds[r][k] EXCEPT !.winner = winnerId, !.score = score]
                   t1 == [t EXCEPT !.bracket =
                            <<[t.bracket[1] EXCEPT !.rounds[r][k] = match]>>]
               IN [t |-> advanceWinnerToNextRound(t1, match), ret |-> "true"]
  ELSE IF t.type = "round-robin"
  THEN LET k == FindMatch(t.matches, matchId)
       IN IF k = 0 THEN [t |-> t, ret |-> "false"]
          ELSE LET t1 == [t EXCEPT !.matches[k].winner = winnerId,
                                   !.matches[k].score = score,
                                   !.matches[k].completed = TRUE]
               IN IF StandingsThrow(t1)
                  THEN [t |-> t1, ret |-> "throw"]
                  ELSE [t |-> updateStandings(t1), ret |-> "true"]
  ELSE [t |-> t, ret |-> "false"]

-----------------------------------------------------------------------------
(* TournamentController: api/controllers/tournament-controller.js          *)

TournamentTypes == {"elimination", "round-robin"}

(* new Tournament(data) with the defaults of the constructor.              *)
NewTournament(type, pids) ==
  [type |-> type, participantIds |-> pids, matches |-> <<>>, bracket |-> <<>>,
   standings |-> <<>>, winnerId |-> Null, status |-> "upcoming"]

NoCall == [op |-> "none", ret |-> "true"]

(* createTournament(tournamentData)                                        *)
CreateTournament(type, pids) ==
  /\ ctlTournaments = <<>>
  /\ LET t == NewTournament(type, pids)
         made == IF type = "elimination"
                 THEN [t EXCEPT !.bracket = <<generateEliminationBracket(pids)>>]
                 ELSE [t EXCEPT !.matches = generateRoundRobinSchedule(pids)]
     IN ctlTournaments' = <<made>>
  /\ ctlResult' = [op |-> "create", ret |-> "true"]
  /\ UNCHANGED <<ctlOps, routeVars>>

(* startTournament(tournamentId)                                           *)
StartTournament ==
  /\ ctlTournaments # <<>>
  /\ LET tournament == ctlTournaments[1]
     IN IF tournament.status # "upcoming"
        THEN /\ ctlResult' = [op |-> "start", ret |-> "false"]
             /\ UNCHANGED ctlTournaments
        ELSE /\ ctlTournaments' = <<[tournament EXCEPT !.status = "in-progress"]>>
             /\ ctlResult' = [op |-> "start", ret |-> "true"]
  /\ UNCHANGED <<ctlOps, routeVars>>

(* The ids a caller may name: those of the tournament's matches and one    *)
(* that no match has.                                                      *)
RECURSIVE Flatten(_)
Flatten(rounds) ==
  IF rounds = <<>> THEN <<>> ELSE Head(rounds) \o Flatten(Tail(rounds))

AllMatches(t) == IF t.bracket # <<>> THEN Flatten(t.bracket[1].rounds) ELSE t.matches

UnknownMatchId == <<Lit("match"), Lit("none")>>

MatchIdInputs(t) ==
  {AllMatches(t)[k].matchId : k \in 1..Len(AllMatches(t))} \cup {UnknownMatchId}

(* The winners a caller may name for a match: its participants, the last   *)
(* registered participant, an id that is not registered, and none.         *)
WinnerInputs(t, matchId) ==
  LET k == FindMatch(AllMatches(t), matchId)
      own == IF k = 0 THEN {}
             ELSE {AllMatches(t)[k].participant1, AllMatches(t)[k].participant2}
  IN own \cup {t.participantIds[Len(t.participantIds)], Outsider, Null}

(* A call is proper when it names an open match that has both of its       *)
(* participants, and one of the two as the winner.  Proper calls end by    *)
(* themselves; the model bounds the number of the others.                  *)
Proper(t, matchId, winnerId) ==
  LET k == FindMatch(AllMatches(t), matchId)
  IN /\ k # 0
     /\ LET match == AllMatches(t)[k]
        IN /\ Truthy(match.participant1) /\ Truthy(match.participant2)
           /\ ~Truthy(match.winner)
           /\ t.type = "round-robin" => ~match.completed
           /\ winnerId \in {match.participant1, match.participant2}

(* The matches an improper call may name: any match of a bracket, whose    *)
(* matches differ by round and position; the first two of a round-robin    *)
(* schedule, whose matches are all alike; and the unknown id.              *)
MisuseMatchIds(t) ==
  IF t.type = "round-robin"
  THEN {ScheduleMatchId(1), ScheduleMatchId(2), UnknownMatchId}
  ELSE MatchIdInputs(t)

(* updateMatchResult(tournamentId, matchId, winnerId, score).  The         *)
(* Tournament built from the stored data shares its match objects, so a   *)
(* call that throws leaves the stored matches as the call mutated them.    *)
UpdateMatchResult(matchId, winnerId) ==
  /\ ctlTournaments # <<>>
  /\ \/ Proper(ctlTournaments[1], matchId, winnerId)
     \/ ctlOps < MaxOps /\ matchId \in MisuseMatchIds(ctlTournaments[1])
  /\ LET out == updateMatchResult(ctlTournaments[1], matchId, winnerId, SomeScore)
     IN /\ ctlTournaments' = <<out.t>>
        /\ ctlResult' = [op |-> "result", ret |-> out.ret]
  /\ ctlOps' = IF Proper(ctlTournaments[1], matchId, winnerId) THEN ctlOps ELSE ctlOps + 1
  /\ UNCHANGED routeVars

CallMatchIds ==
  IF ctlTournaments = <<>> THEN {} ELSE MatchIdInputs(ctlTournaments[1])

CallWinnerIds(matchId) == WinnerInputs(ctlTournaments[1], matchId)

InitModel ==
  /\ ctlTournaments = <<>>
  /\ ctlResult = NoCall
  /\ ctlOps = 0
  /\ tournaments = <<>>
  /\ matches = <<>>
  /\ response = [op |-> "none", code |-> 200]
  /\ nSubmits = 0
  /\ nStarts = 0

NextModel ==
  \/ \E n \in MinN..MaxN : CreateTournament("elimination", SubSeq(AllIds, 1, n))
  \/ \E n \in MinN..MaxRR : CreateTournament("round-robin", SubSeq(AllIds, 1, n))
  \/ StartTournament
  \/ \E matchId \in CallMatchIds : \E winnerId \in CallWinnerIds(matchId) :
          UpdateMatchResult(matchId, winnerId)

SpecModel == InitModel /\ [][NextModel]_vars

(* A result for some match that has two participants and no winner; the    *)
(* callers keep submitting such results while there is such a match.       *)
ProperResult ==
  \E matchId \in CallMatchIds : \E winnerId \in CallWinnerIds(matchId) :
     /\ Proper(ctlTournaments[1], matchId, winnerId)
     /\ UpdateMatchResult(matchId, winnerId)

(* The controller when every result is such a result.                      *)
NextProper ==
  \/ \E n \in MinN..MaxN : CreateTournament("elimination", SubSeq(AllIds, 1, n))
  \/ \E n \in MinN..MaxRR : CreateTournament("round-robin", SubSeq(AllIds, 1, n))
  \/ StartTournament
  \/ ProperResult

SpecModelFair == InitModel /\ [][NextProper]_vars /\ WF_vars(ProperResult)

-----------------------------------------------------------------------------
(* Tournaments API module: the express router over the module arrays       *)
(* `tournaments` and `matches`.                                            *)

TournamentId == "t1"          \* `tournament_${Date.now()}_${random}`
Draw == "draw"

BracketTypes == {"single-elimination", "double-elimination", "round-robin"}
ValidCounts == {4, 8, 16, 32, 64}
DefaultPoints == [win |-> 3, loss |-> 0, draw |-> 1]
CustomPoints == [win |-> 2, loss |-> 1, draw |-> 1]

(* An optional object: <<>> is undefined, <<x>> is x.                      *)
Undefined == <<>>
Defined(x) == x # <<>>

(* `match_${tournament.id}_R${round}M${number}`                            *)
RouteMatchId(tid, round, number) ==
  <<Lit("match_"), Lit(tid), Lit("_R"), Num(round), Lit("M"), Num(number)>>

(* generateBracketStructure, single-elimination: the rounds from           *)
(* matchesInRound down to 1, halving.                                      *)
RECURSIVE BracketRounds(_, _)
BracketRounds(roundNum, matchesInRound2) ==
  \* matchesInRound2 is twice matchesInRound, which may be a half
  IF matchesInRound2 < 2 THEN <<>>
  ELSE <<[roundNumber |-> roundNum, matchCount |-> matchesInRound2 \div 2]>>
         \o BracketRounds(roundNum + 1, matchesInRound2 \div 2)

(* generateBracketStructure(bracketType, numParticipants); the winners and *)
(* losers brackets of a double elimination are never read and left out.    *)
generateBracketStructure(bracketType, numParticipants) ==
  [type |-> bracketType,
   rounds |-> IF bracketType = "single-elimination"
              THEN BracketRounds(1, numParticipants)
              ELSE IF bracketType = "round-robin"
              THEN <<[roundNumber |-> 1,
                      matchCount |-> (numParticipants * (numParticipants - 1)) \div 2]>>
              ELSE <<>>]

(* generateFirstRoundMatches(tournament): i runs while i < length / 2, so  *)
(* an odd roster gives a last match without a second participant.         *)
generateFirstRoundMatches(tournament) ==
  LET participants == tournament.registeredParticipants
      count == (Len(participants) + 1) \div 2
      At(k) == IF k <= Len(participants) THEN <<participants[k]>> ELSE Undefined
  IN [i \in 1..count |->
        [id |-> RouteMatchId(tournament.id, 1, i), tournamentId |-> tournament.id,
         round |-> 1, matchNumber |-> i,
         participant1 |-> At(2 * i - 1), participant2 |-> At(2 * i),
         winnerId |-> Null, score |-> Null, status |-> "pending"]]

(* registeredParticipants.find(p => p.userId === userId)                   *)
FindParticipant(tournament, userId) ==
  LET ps == tournament.registeredParticipants
      hits == {k \in 1..Len(ps) : ps[k].userId = userId}
  IN IF hits = {} THEN Undefined
     ELSE <<ps[CHOOSE k \in hits : \A j \in hits : k <= j]>>

(* matches.filter(...) of generateNextRoundMatches: the completed matches  *)
(* of the tournament's current round, in the order of the array.           *)
RECURSIVE PreviousRoundMatches(_, _)
PreviousRoundMatches(tournament, ms) ==
  IF ms = <<>> THEN <<>>
  ELSE (IF /\ Head(ms).tournamentId = tournament.id
           /\ Head(ms).round = tournament.currentRound
           /\ Head(ms).status = "completed"
        THEN <<Head(ms)>> ELSE <<>>) \o PreviousRoundMatches(tournament, Tail(ms))

(* generateNextRoundMatches throws a TypeError when the completed matches  *)
(* of the round are odd in number (match2 is undefined).                   *)
NextRoundThrows(tournament, ms) == Len(PreviousRoundMatches(tournament, ms)) % 2 # 0

generateNextRoundMatches(tournament, ms) ==
  LET currentRound == tournament.currentRound
      previousRoundMatches == PreviousRoundMatches(tournament, ms)
      count == Len(previousRoundMatches) \div 2
  IN [i \in 1..count |->
        [id |-> RouteMatchId(tournament.id, currentRound + 1, i),
         tournamentId |-> tournament.id,
         round |-> currentRound + 1, matchNumber |-> i,
         participant1 |-> FindParticipant(tournament, previousRoundMatches[2 * i - 1].winnerId),
         participant2 |-> FindParticipant(tournament, previousRoundMatches[2 * i].winnerId),
         winnerId |-> Null, score |-> Null, status |-> "pending"]]

(* A comparator that looks at the points only.                             *)
CompareRoutePointsOnly(a, b) == b.points - a.points

(* Comparator of updateTournamentStandings: points descending, then wins   *)
(* descending, then losses ascending.                                      *)
CompareRouteStandings(a, b) ==
  IF b.points # a.points THEN b.points - a.points
  ELSE IF b.wins # a.wins THEN b.wins - a.wins
  ELSE a.losses - b.losses

RECURSIVE InsertRouteStanding(_, _)
InsertRouteStanding(s, x) ==
  IF s = <<>> THEN <<x>>
  ELSE IF CompareRouteStandings(x, Head(s)) < 0 THEN <<x>> \o s
       ELSE <<Head(s)>> \o InsertRouteStanding(Tail(s), x)

RECURSIVE SortRouteStandings(_)
SortRouteStandings(s) ==
  IF s = <<>> THEN <<>>
  ELSE InsertRouteStanding(SortRouteStandings(SubSeq(s, 1, Len(s) - 1)), s[Len(s)])

FindStanding(standings, userId) ==
  LET hits == {k \in 1..Len(standings) : standings[k].userId = userId}
  IN IF hits = {} THEN 0 ELSE CHOOSE k \in hits : \A j \in hits : k <= j

NewStanding(userId) ==
  [userId |-> userId, wins |-> 0, losses |-> 0, draws |-> 0, points |-> 0]

(* updateTournamentStandings throws a TypeError when a participant of the  *)
(* match is undefined (participant1.userId), before it changes anything.   *)
StandingsUpdateThrows(match) ==
  ~Defined(match.participant1) \/ ~Defined(match.participant2)

(* An update that credits a draw to the first participant only.            *)
updateStandingsDrawToFirst(tournament, match) ==
  LET u1 == match.participant1[1].userId
      u2 == match.participant2[1].userId
      pointsSystem == tournament.pointsSystem
      s0 == tournament.standings
      s1 == IF FindStanding(s0, u1) = 0 THEN Append(s0, NewStanding(u1)) ELSE s0
      s2 == IF FindStanding(s1, u2) = 0 THEN Append(s1, NewStanding(u2)) ELSE s1
      k1 == FindStanding(s2, u1)
      k2 == FindStanding(s2, u2)
      Won(st) == [st EXCEPT !.wins = @ + 1, !.points = @ + pointsSystem.win]
      Lost(st) == [st EXCEPT !.losses = @ + 1, !.points = @ + pointsSystem.loss]
      Drew(st) == [st EXCEPT !.draws = @ + 1, !.points = @ + pointsSystem.draw]
      s3 == IF match.winnerId = u1
            THEN [[s2 EXCEPT ![k1] = Won(@)] EXCEPT ![k2] = Lost(@)]
            ELSE IF match.winnerId = u2
            THEN [[s2 EXCEPT ![k2] = Won(@)] EXCEPT ![k1] = Lost(@)]
            ELSE IF match.winnerId = Draw
            THEN [s2 EXCEPT ![k1] = Drew(@)]
            ELSE s2
  IN SortRouteStandings(s3)

(* updateTournamentStandings(tournament, match): the standings afterwards. *)
updateTournamentStandings(tournament, match) ==
  LET u1 == match.participant1[1].userId
      u2 == match.participant2[1].userId
      pointsSystem == tournament.pointsSystem
      s0 == tournament.standings
      s1 == IF FindStanding(s0, u1) = 0 THEN Append(s0, NewStanding(u1)) ELSE s0
      s2 == IF FindStanding(s1, u2) = 0 THEN Append(s1, NewStanding(u2)) ELSE s1
      k1 == FindStanding(s2, u1)
      k2 == FindStanding(s2, u2)
      Won(st) == [st EXCEPT !.wins = @ + 1, !.points = @ + pointsSystem.win]
      Lost(st) == [st EXCEPT !.losses = @ + 1, !.points = @ + pointsSystem.loss]
      Drew(st) == [st EXCEPT !.draws = @ + 1, !.points = @ + pointsSystem.draw]
      \* standing1 and standing2 are the same object when u1 = u2
      s3 == IF match.winnerId = u1
            THEN [[s2 EXCEPT ![k1] = Won(@)] EXCEPT ![k2] = Lost(@)]
            ELSE IF match.winnerId = u2
            THEN [[s2 EXCEPT ![k2] = Won(@)] EXCEPT ![k1] = Lost(@)]
            ELSE IF match.winnerId = Draw
            THEN [[s2 EXCEPT ![k1] = Drew(@)] EXCEPT ![k2] = Drew(@)]
            ELSE s2
  IN SortRouteStandings(s3)

(* checkRoundComplete(tournament)                                          *)
checkRoundComplete(tournament, ms) ==
  \A k \in 1..Len(ms) :
     (ms[k].tournamentId = tournament.id /\ ms[k].round = tournament.currentRound)
        => ms[k].status = "completed"

(* determineTournamentWinner(tournament): the winner's userId, Null  when  *)
(* the function returns null or undefined.                                 *)
determineTournamentWinner(tournament, ms) ==
  IF tournament.bracketType \in {"single-elimination", "double-elimination"}
  THEN LET hits == {k \in 1..Len(ms) :
                      /\ ms[k].tournamentId = tournament.id
                      /\ ms[k].round = tournament.totalRounds
                      /\ ms[k].status = "completed"}
       IN IF hits = {} THEN Null
          ELSE LET finalMatch == ms[CHOOSE k \in hits : \A j \in hits : k <= j]
                   found == FindParticipant(tournament, finalMatch.winnerId)
               IN IF Defined(found) THEN found[1].userId ELSE Null
  ELSE IF tournament.bracketType = "round-robin"
  THEN IF tournament.standings = <<>> THEN Null
       ELSE LET found == FindParticipant(tournament, tournament.standings[1].userId)
            IN IF Defined(found) THEN found[1].userId ELSE Null
  ELSE Null

(* newTournament of POST /create                                           *)
NewRouteTournament(id, bracketType, participants, pointsSystem) ==
  LET bracket == generateBracketStructure(bracketType, participants)
  IN [id |-> id, bracketType |-> bracketType,
      participants |-> participants,
      pointsSystem |-> IF pointsSystem = <<>> THEN DefaultPoints
                       ELSE pointsSystem[1],
      bracket |-> bracket, registeredParticipants |-> <<>>,
      standings |-> <<>>, status |-> "registration",
      currentRound |-> 1, totalRounds |-> Len(bracket.rounds),
      winner |-> Null]

(* POST /create                                                            *)
Create(bracketType, participants, pointsSystem) ==
  /\ tournaments = <<>>
  /\ IF participants \notin ValidCounts
     THEN /\ response' = [op |-> "create", code |-> 400]
          /\ UNCHANGED tournaments
     ELSE /\ tournaments' =
               <<NewRouteTournament(TournamentId, bracketType, participants, pointsSystem)>>
          /\ response' = [op |-> "create", code |-> 201]
  /\ UNCHANGED <<matches, nSubmits, nStarts, ctlVars>>

(* POST /create once more: the tournament is pushed behind the first, with *)
(* an id of its own (the ids carry the time and six random bytes).         *)
SecondTournamentId == "t2"

CreateSecond(bracketType, participants, pointsSystem) ==
  /\ Len(tournaments) = 1
  /\ IF participants \notin ValidCounts
     THEN /\ response' = [op |-> "create", code |-> 400]
          /\ UNCHANGED tournaments
     ELSE /\ tournaments' = Append(tournaments,
               NewRouteTournament(SecondTournamentId, bracketType, participants, pointsSystem))
          /\ response' = [op |-> "create", code |-> 201]
  /\ UNCHANGED <<matches, nSubmits, nStarts, ctlVars>>

(* The tournament a request names: tournaments.find(t => t.id === id)      *)
FindTournament(id) ==
  LET hits == {k \in 1..Len(tournaments) : tournaments[k].id = id}
  IN IF hits = {} THEN 0 ELSE CHOOSE k \in hits : \A j \in hits : k <= j

(* PUT /:id: the stored tournament is replaced by the spread of itself and *)
(* of the request body, { ...tournament, ...updates }.                     *)
Merge(tournament, updates) ==
  [f \in DOMAIN tournament |->
     IF f \in DOMAIN updates THEN updates[f] ELSE tournament[f]]

Update(id, byOrganizer, updates) ==
  /\ LET k == FindTournament(id)
     IN IF k = 0
        THEN response' = [op |-> "update", code |-> 404] /\ UNCHANGED tournaments
        ELSE IF ~byOrganizer
        THEN response' = [op |-> "update", code |-> 403] /\ UNCHANGED tournaments
        ELSE /\ tournaments' = [tournaments EXCEPT ![k] = Merge(tournaments[k], updates)]
             /\ response' = [op |-> "update", code |-> 200]
  /\ UNCHANGED <<matches, nSubmits, nStarts, ctlVars>>

(* A tournament that takes registrations whatever its status.              *)
AlwaysAcceptingRegistrations(tournament) == TRUE

(* "Check if tournament is accepting registrations"                        *)
AcceptingRegistrations(tournament) == tournament.status = "registration"

(* A duplicate check that finds nobody.                                    *)
NeverRegistered(roster, userId) == FALSE

(* "Check if user already registered"                                      *)
AlreadyRegistered(roster, userId) == \E i \in 1..Len(roster) : roster[i].userId = userId

(* POST /:id/register, by user userId                                      *)
Register(id, userId) ==
  /\ LET k == FindTournament(id)
     IN IF k = 0
        THEN response' = [op |-> "register", code |-> 404] /\ UNCHANGED tournaments
        ELSE LET tournament == tournaments[k]
                 roster == tournament.registeredParticipants
             IN IF ~AcceptingRegistrations(tournament)
                THEN response' = [op |-> "register", code |-> 400] /\ UNCHANGED tournaments
                ELSE IF Len(roster) >= tournament.participants
                THEN response' = [op |-> "register", code |-> 400] /\ UNCHANGED tournaments
                ELSE IF AlreadyRegistered(roster, userId)
                THEN response' = [op |-> "register", code |-> 400] /\ UNCHANGED tournaments
                ELSE /\ tournaments' = [tournaments EXCEPT ![k].registeredParticipants =
                          Append(roster, [userId |-> userId, seed |-> Len(roster) + 1])]
                     /\ response' = [op |-> "register", code |-> 200]
  /\ UNCHANGED <<matches, nSubmits, nStarts, ctlVars>>

(* A roster check that lets every roster through.                          *)
NeverTooFew(tournament) == FALSE

(* "Check if enough participants"                                          *)
TooFewToStart(tournament) == Len(tournament.registeredParticipants) < MinToStart

(* POST /:id/start                                                         *)
Start(id, byOrganizer) ==
  /\ LET k == FindTournament(id)
     IN IF k = 0
        THEN response' = [op |-> "start", code |-> 404]
             /\ UNCHANGED <<tournaments, matches, nStarts>>
        ELSE IF ~byOrganizer
        THEN response' = [op |-> "start", code |-> 403]
             /\ UNCHANGED <<tournaments, matches, nStarts>>
        ELSE IF TooFewToStart(tournaments[k])
        THEN response' = [op |-> "start", code |-> 400]
             /\ UNCHANGED <<tournaments, matches, nStarts>>
        ELSE /\ nStarts < MaxStarts
             /\ matches' = matches \o generateFirstRoundMatches(tournaments[k])
             /\ tournaments' = [tournaments EXCEPT ![k].status = "active",
                                                   ![k].currentRound = 1]
             /\ nStarts' = nStarts + 1
             /\ response' = [op |-> "start", code |-> 200]
  /\ UNCHANGED <<nSubmits, ctlVars>>

(* A lookup that falls back on the first match when the id is unknown.     *)
FindRouteMatchOrFirst(ms, matchId, id) ==
  LET hits == {k \in 1..Len(ms) : ms[k].id = matchId /\ ms[k].tournamentId = id}
  IN IF hits # {} THEN CHOOSE k \in hits : \A j \in hits : k <= j
     ELSE IF ms = <<>> THEN 0 ELSE 1

(* A lookup by the match id alone, in the matches of every tournament.     *)
FindRouteMatchAnywhere(ms, matchId, id) ==
  LET hits == {k \in 1..Len(ms) : ms[k].id = matchId}
  IN IF hits = {} THEN 0 ELSE CHOOSE k \in hits : \A j \in hits : k <= j

(* matches.find(m => m.id === matchId && m.tournamentId === id)            *)
FindRouteMatch(ms, matchId, id) ==
  LET hits == {k \in 1..Len(ms) : ms[k].id = matchId /\ ms[k].tournamentId = id}
  IN IF hits = {} THEN 0 ELSE CHOOSE k \in hits : \A j \in hits : k <= j

(* POST /:id/matches/:matchId/result by the organizer, for a tournament    *)
(* and a match that exist: the arrays and the status code afterwards.  A   *)
(* TypeError thrown on the way is caught and answered with 500; what was   *)
(* assigned before it stays assigned.                                      *)
SubmitOutcome(ts, ms, k, j, winnerId, score) ==
  LET id == ts[k].id
      ms1 == [ms EXCEPT ![j].winnerId = winnerId, ![j].score = score,
                        ![j].status = "completed"]
      match == ms1[j]
  IN IF StandingsUpdateThrows(match)
     THEN [tournaments |-> ts, matches |-> ms1, code |-> 500]
     ELSE
       LET ts1 == [ts EXCEPT ![k].standings = updateTournamentStandings(ts[k], match)]
           tournament == ts1[k]
           roundComplete == checkRoundComplete(tournament, ms1)
       IN IF ~roundComplete
          THEN [tournaments |-> ts1, matches |-> ms1, code |-> 200]
          ELSE IF tournament.currentRound < tournament.totalRounds
          THEN IF NextRoundThrows(tournament, ms1)
               THEN [tournaments |-> ts1, matches |-> ms1, code |-> 500]
               ELSE [tournaments |-> [ts1 EXCEPT ![k].currentRound = @ + 1],
                     matches |-> ms1 \o generateNextRoundMatches(tournament, ms1),
                     code |-> 200]
          ELSE [tournaments |->
                   [ts1 EXCEPT ![k].status = "completed",
                               ![k].winner = determineTournamentWinner(tournament, ms1)],
                matches |-> ms1, code |-> 200]

(* A submission is proper when it names a pending match with both of its   *)
(* participants and one of them as the winner, or a draw in a round robin. *)
(* Proper submissions end by themselves; the model bounds the others.      *)
ProperSubmit(id, matchId, winnerId, byOrganizer) ==
  LET k == FindTournament(id)
      j == FindRouteMatch(matches, matchId, id)
  IN /\ byOrganizer /\ k # 0 /\ j # 0
     /\ matches[j].status = "pending"
     /\ Defined(matches[j].participant1) /\ Defined(matches[j].participant2)
     /\ \/ winnerId \in {matches[j].participant1[1].userId,
                         matches[j].participant2[1].userId}
        \/ winnerId = Draw /\ tournaments[k].bracketType = "round-robin"

SubmitResult(id, matchId, winnerId, byOrganizer) ==
  /\ ProperSubmit(id, matchId, winnerId, byOrganizer) \/ nSubmits < MaxSubmits
  /\ nSubmits' = IF ProperSubmit(id, matchId, winnerId, byOrganizer)
                 THEN nSubmits ELSE nSubmits + 1
  /\ LET k == FindTournament(id)
         j == FindRouteMatch(matches, matchId, id)
     IN IF k = 0
        THEN response' = [op |-> "result", code |-> 404]
             /\ UNCHANGED <<tournaments, matches>>
        ELSE IF ~byOrganizer
        THEN response' = [op |-> "result", code |-> 403]
             /\ UNCHANGED <<tournaments, matches>>
        ELSE IF j = 0
        THEN response' = [op |-> "result", code |-> 404]
             /\ UNCHANGED <<tournaments, matches>>
        ELSE LET out == SubmitOutcome(tournaments, matches, k, j, winnerId, SomeScore)
             IN /\ tournaments' = out.tournaments
                /\ matches' = out.matches
                /\ response' = [op |-> "result", code |-> out.code]
  /\ UNCHANGED <<nStarts, ctlVars>>

(* The inputs of the requests.                                             *)
TournamentIdInputs == {TournamentId}
CountInputs == {4, 5, 8}
PointsInputs == {<<>>, <<CustomPoints>>}

(* The bodies of POST /create: every bracket type at the smallest          *)
(* capacity, single elimination also at the other counts, and round-robin  *)
(* also with a points system of its own.                                   *)
CreateInputs ==
  {b \in [bracketType : BracketTypes, participants : CountInputs,
          pointsSystem : PointsInputs] :
     \/ b.bracketType = "single-elimination" /\ b.pointsSystem = <<>>
     \/ /\ b.participants = 4
        /\ (b.pointsSystem = <<>> \/ b.bracketType = "round-robin")}

(* The body of a PUT request that cancels the tournament.                  *)
UpdateInputs == {[status |-> "cancelled"]}

(* Users register in the order of AllIds; a request comes from the first   *)
(* user who has registered or from the next who has not: while             *)
(* registration is open up to MaxUsers of them, and after it has closed a  *)
(* latecomer.                                                              *)
UserInputs ==
  IF tournaments = <<>> THEN {AllIds[1]}
  ELSE LET n == Len(tournaments[1].registeredParticipants)
       IN {AllIds[1]} \cup
          (IF n < MaxUsers \/ (tournaments[1].status # "registration" /\ n < Len(AllIds))
           THEN {AllIds[n + 1]} ELSE {})

UnknownRouteMatchId == <<Lit("match_"), Lit("none")>>
RouteMatchIdInputs == {matches[j].id : j \in 1..Len(matches)} \cup {UnknownRouteMatchId}

RouteWinnerInputs(matchId) ==
  LET j == FindRouteMatch(matches, matchId, TournamentId)
      own == IF j = 0 THEN {}
             ELSE {p[1].userId : p \in {q \in {matches[j].participant1,
                                               matches[j].participant2} : Defined(q)}}
  IN own \cup {Draw, Outsider}

InitRoute ==
  /\ tournaments = <<>>
  /\ matches = <<>>
  /\ response = [op |-> "none", code |-> 200]
  /\ nSubmits = 0
  /\ nStarts = 0
  /\ ctlTournaments = <<>>
  /\ ctlResult = NoCall
  /\ ctlOps = 0

NextRoute ==
  \/ \E b \in CreateInputs : Create(b.bracketType, b.participants, b.pointsSystem)
  \/ \E id \in TournamentIdInputs, userId \in UserInputs : Register(id, userId)
  \/ \E id \in TournamentIdInputs, byOrganizer \in BOOLEAN : Start(id, byOrganizer)
  \/ \E id \in TournamentIdInputs, byOrganizer \in BOOLEAN, updates \in UpdateInputs :
        Update(id, byOrganizer, updates)
  \/ \E id \in TournamentIdInputs, matchId \in RouteMatchIdInputs,
        byOrganizer \in BOOLEAN :
        \E winnerId \in RouteWinnerInputs(matchId) :
           SubmitResult(id, matchId, winnerId, byOrganizer)

SpecRoute == InitRoute /\ [][NextRoute]_vars

(* The router with two tournaments of capacity 4, single-elimination or    *)
(* round-robin, whose requests come in any order.  The same users register *)
(* for both, in the                                                        *)
(* order of AllIds; the organizer submits results for the pending matches  *)
(* of either tournament, addressed to either.                              *)
TwoIds == {TournamentId, SecondTournamentId}

TwoCreateInputs ==
  {b \in CreateInputs : b.participants = 4 /\ b.pointsSystem = <<>>
                          /\ b.bracketType # "double-elimination"}

TwoUserInputs(id) ==
  LET k == FindTournament(id)
  IN IF k = 0 THEN {AllIds[1]}
     ELSE LET n == Len(tournaments[k].registeredParticipants)
          IN IF n < tournaments[k].participants THEN {AllIds[n + 1]} ELSE {AllIds[1]}

(* The organizer starts a tournament once: one that is taking              *)
(* registrations, or one that does not exist yet.                          *)
TwoStartInputs ==
  {id \in TwoIds : FindTournament(id) # 0 =>
                      tournaments[FindTournament(id)].status = "registration"}

(* The organizer submits results for the matches still to be played.       *)
TwoMatchIdInputs ==
  {matches[j].id : j \in {i \in 1..Len(matches) : matches[i].status = "pending"}}

TwoWinnerInputs(matchId) ==
  UNION {{matches[j].participant1[1].userId, matches[j].participant2[1].userId} :
           j \in {i \in 1..Len(matches) :
                    /\ matches[i].id = matchId
                    /\ Defined(matches[i].participant1)
                    /\ Defined(matches[i].participant2)}}

NextTwo ==
  \/ \E b \in TwoCreateInputs : Create(b.bracketType, b.participants, b.pointsSystem)
  \/ \E b \in TwoCreateInputs : CreateSecond(b.bracketType, b.participants, b.pointsSystem)
  \/ \E id \in TwoIds : \E userId \in TwoUserInputs(id) : Register(id, userId)
  \/ \E id \in TwoStartInputs : Start(id, TRUE)
  \/ \E id \in TwoIds, matchId \in TwoMatchIdInputs :
        \E winnerId \in TwoWinnerInputs(matchId) :
           SubmitResult(id, matchId, winnerId, TRUE)

SpecTwo == InitRoute /\ [][NextTwo]_vars

-----------------------------------------------------------------------------
(* createTournament alone, over many participant lists: every list of      *)
(* distinct ids of length MinN..MaxPerm drawn from the first MaxPerm ids,  *)
(* and the lists of the first n ids for n up to MaxBuild.                  *)

IdPool == {AllIds[i] : i \in 1..MaxPerm}

DistinctLists(n) ==
  {pids \in [1..n -> IdPool] : \A i, j \in 1..n : i # j => pids[i] # pids[j]}

BuildLists ==
  UNION {DistinctLists(n) : n \in MinN..MaxPerm}
    \cup {SubSeq(AllIds, 1, n) : n \in MinN..MaxBuild}

NextBuild ==
  \E type \in TournamentTypes, pids \in BuildLists : CreateTournament(type, pids)

SpecBuild == InitModel /\ [][NextBuild]_vars

-----------------------------------------------------------------------------
(* Properties of the schedules built at creation.                          *)

Created == ctlTournaments # <<>>
T == ctlTournaments[1]
NumParticipants == Len(T.participantIds)
ParticipantSet == {T.participantIds[i] : i \in 1..NumParticipants}

MatchesBetween(a, b) ==
  {k \in 1..Len(T.matches) :
     {T.matches[k].participant1, T.matches[k].participant2} = {a, b}}

(* C2: a round-robin schedule of n >= 2 distinct participants has exactly  *)
(* n*(n-1)/2 matches, each between two distinct real participants, and     *)
(* every unordered pair of participants meets in exactly one match.        *)
C2_RoundRobinAllPairsOnce ==
  (Created /\ T.type = "round-robin" /\ NumParticipants >= 2) =>
    /\ 2 * Len(T.matches) = NumParticipants * (NumParticipants - 1)
    /\ \A k \in 1..Len(T.matches) :
         /\ T.matches[k].participant1 \in ParticipantSet
         /\ T.matches[k].participant2 \in ParticipantSet
         /\ T.matches[k].participant1 # T.matches[k].participant2
    /\ \A a, b \in ParticipantSet :
         a # b => Cardinality(MatchesBetween(a, b)) = 1

(* A schedule over an odd number of participants, where the circle method  *)
(* pads with a bye, and one over an even number.                           *)
C2_Witness ==
  /\ Created /\ T.type = "round-robin"
  /\ T.participantIds = <<"c", "a", "b">>
  /\ Len(T.matches) = 3

(* The smallest power of two that is at least n, found by search.          *)
IsPow2(b) == \E k \in 0..b : Pow2(k) = b
NextPowerOfTwo(n) ==
  CHOOSE b \in 1..(2 * n) :
    IsPow2(b) /\ b >= n /\ \A c \in 1..(b - 1) : IsPow2(c) => c < n

RECURSIVE SumLens(_)
SumLens(rounds) ==
  IF rounds = <<>> THEN 0 ELSE Len(Head(rounds)) + SumLens(Tail(rounds))

(* C3: the bracket of n >= 2 participants has log2(B) rounds, B the        *)
(* smallest power of two >= n; round r has B/2^r matches, the last round   *)
(* one match, and all rounds together B - 1 matches.                       *)
C3_BracketShape ==
  (Created /\ T.type = "elimination" /\ NumParticipants >= 2) =>
    LET B == NextPowerOfTwo(NumParticipants)
        rounds == T.bracket[1].rounds
    IN /\ Pow2(Len(rounds)) = B
       /\ \A r \in 1..Len(rounds) : Len(rounds[r]) * Pow2(r) = B
       /\ Len(rounds[1]) * 2 = B
       /\ Len(rounds[Len(rounds)]) = 1
       /\ SumLens(rounds) = B - 1

(* A bracket padded from 5 participants to 8 slots: 4, 2 and 1 matches.    *)
C3_Witness ==
  /\ Created /\ T.type = "elimination"
  /\ NumParticipants = 5
  /\ Len(T.bracket[1].rounds) = 3
  /\ Len(T.bracket[1].rounds[1]) = 4

-----------------------------------------------------------------------------
(* Claims about the bracket as built, checked under SpecBuild.             *)

FirstRound == T.bracket[1].rounds[1]
Live(p) == p # Null
LiveCount(match) ==
  (IF Live(match.participant1) THEN 1 ELSE 0) + (IF Live(match.participant2) THEN 1 ELSE 0)
TheLive(match) ==
  IF Live(match.participant1) THEN match.participant1 ELSE match.participant2

(* C11: right after generateEliminationBracket, every round-1 match with   *)
(* exactly one real participant has that participant as winner, and every  *)
(* round-1 match with two real participants has no winner.                 *)
C11_ByeAutoResolved ==
  (Created /\ T.type = "elimination") =>
    \A k \in 1..Len(FirstRound) :
       /\ LiveCount(FirstRound[k]) = 1 => FirstRound[k].winner = TheLive(FirstRound[k])
       /\ LiveCount(FirstRound[k]) = 2 => FirstRound[k].winner = Null

(* A bracket of 7: three real pairings and the bye match won by "g".       *)
C11_Witness ==
  /\ Created /\ T.type = "elimination"
  /\ T.participantIds = SubSeq(AllIds, 1, 7)
  /\ FirstRound[4].participant1 = "g" /\ FirstRound[4].participant2 = Null
  /\ FirstRound[4].winner = "g"
  /\ FirstRound[1].participant2 = "b" /\ FirstRound[1].winner = Null

AutoResolved == {k \in 1..Len(FirstRound) :
                   Live(FirstRound[k].winner) /\ LiveCount(FirstRound[k]) = 1}
RealPairings == {k \in 1..Len(FirstRound) :
                   LiveCount(FirstRound[k]) = 2 /\ FirstRound[k].winner = Null}

(* C12: for 5 participants the bracket has size 8 and 4 round-1 matches,   *)
(* of which exactly three are auto-resolved byes and exactly one has two   *)
(* live participants and no winner.  (The code fills the slots in order:   *)
(* two real pairings, one bye, and one match with no participant at all.)  *)
C12_FiveParticipantsThreeByes ==
  (Created /\ T.type = "elimination" /\ NumParticipants = 5) =>
    /\ T.bracket[1].size = 8
    /\ Len(FirstRound) = 4
    /\ Cardinality(AutoResolved) = 3
    /\ Cardinality(RealPairings) = 1

(* The matches of the schedule that participant p plays.                   *)
MatchesOf(p) ==
  {k \in 1..Len(T.matches) : p \in {T.matches[k].participant1, T.matches[k].participant2}}

(* C27: generateRoundRobinSchedule labels the matches with the rounds      *)
(* 1..R, R = n-1 for even n and n for odd n, and no participant is in two  *)
(* matches of one round; 4 participants have 6 matches over 3 rounds and   *)
(* play 3 matches each.                                                    *)
C27_RoundRobinRounds ==
  (Created /\ T.type = "round-robin" /\ NumParticipants >= 2) =>
    LET R == IF NumParticipants % 2 = 0 THEN NumParticipants - 1 ELSE NumParticipants
    IN /\ {T.matches[k].round : k \in 1..Len(T.matches)} = 1..R
       /\ \A p \in ParticipantSet : \A j, k \in MatchesOf(p) :
             j # k => T.matches[j].round # T.matches[k].round
       /\ NumParticipants = 4 =>
             /\ Len(T.matches) = 6
             /\ \A p \in ParticipantSet : Cardinality(MatchesOf(p)) = 3

(* A schedule of four: six matches, the last of them in round 3.           *)
C27_Witness ==
  /\ Created /\ T.type = "round-robin"
  /\ T.participantIds = <<"a", "b", "c", "d">>
  /\ Len(T.matches) = 6
  /\ T.matches[6].round = 3

-----------------------------------------------------------------------------
(* Claims about the Tournament class, checked under SpecModel.             *)

TNext == ctlTournaments'[1]

(* The step is a call updateMatchResult(matchId, winnerId, score).         *)
CallStep(matchId, winnerId) ==
  /\ Created
  /\ ctlResult'.op = "result"
  /\ LET out == updateMatchResult(T, matchId, winnerId, SomeScore)
     IN ctlTournaments' = <<out.t>> /\ ctlResult'.ret = out.ret

FinalMatchId(t) == BracketMatchId(Len(t.bracket[1].rounds), 1)

(* C1: in an elimination bracket, once updateMatchResult has recorded a    *)
(* result for the final match, the status is 'completed' and winnerId is   *)
(* the winner of the final.  (The code completes the tournament on a       *)
(* result of the round before the final and returns early on the final.)   *)
C1_FinalResultCompletes ==
  [][\A matchId \in CallMatchIds : \A winnerId \in CallWinnerIds(matchId) :
       ( /\ T.type = "elimination"
         /\ matchId = FinalMatchId(T)
         /\ Proper(T, matchId, winnerId)
         /\ CallStep(matchId, winnerId) )
       => (TNext.status = "completed" /\ TNext.winnerId = winnerId)]_vars

(* C5: a result whose winnerId is neither of the match's two participants  *)
(* is rejected and changes nothing.  (The code stores any winnerId.)       *)
C5_InvalidWinnerRejected ==
  [][\A matchId \in CallMatchIds : \A winnerId \in CallWinnerIds(matchId) :
       LET k == FindMatch(AllMatches(T), matchId)
       IN ( /\ k # 0
            /\ winnerId # Null
            /\ winnerId \notin {AllMatches(T)[k].participant1,
                                AllMatches(T)[k].participant2}
            /\ CallStep(matchId, winnerId) )
          => (ctlResult'.ret # "true" /\ ctlTournaments' = ctlTournaments)]_vars

(* The final of a bracket of three: the only match of round 2.             *)
FinalOf(t) == t.bracket[1].rounds[2][1]
ByeWinnerOf(t) == t.bracket[1].rounds[1][2].winner

(* C13: for 3 participants, right after the build the final has one slot   *)
(* filled with the bye winner and the other empty; after the result of the *)
(* one real round-1 pairing the final has both slots filled and no winner. *)
(* (The build never advances the bye winner, so the final starts empty     *)
(* and has one slot filled after the pairing's result.)                    *)
C13_FinalOfThree ==
  [][/\ ( /\ ctlResult'.op = "create"
          /\ TNext.type = "elimination"
          /\ Len(TNext.participantIds) = 3 )
        => ( /\ Live(ByeWinnerOf(TNext))
             /\ {FinalOf(TNext).participant1, FinalOf(TNext).participant2}
                   = {ByeWinnerOf(TNext), Null} )
     /\ Created =>
        \A winnerId \in CallWinnerIds(BracketMatchId(1, 1)) :
          ( /\ T.type = "elimination"
            /\ NumParticipants = 3
            /\ Proper(T, BracketMatchId(1, 1), winnerId)
            /\ CallStep(BracketMatchId(1, 1), winnerId) )
          => ( /\ Live(FinalOf(TNext).participant1)
               /\ Live(FinalOf(TNext).participant2)
               /\ FinalOf(TNext).winner = Null )]_vars

AllCompleted(t) == \A k \in 1..Len(t.matches) : t.matches[k].completed

(* C14: in a round-robin tournament, the result submission after which     *)
(* every match is completed sets status 'completed' and winnerId to the    *)
(* first entry of the standings; while a match is still open, a submission *)
(* never sets status 'completed'.  (A submission naming a winner that is   *)
(* not a participant completes the match and then throws in                *)
(* updateStandings, before the status is set.)                             *)
C14_RoundRobinCompletion ==
  [][\A matchId \in CallMatchIds : \A winnerId \in CallWinnerIds(matchId) :
       ( /\ T.type = "round-robin"
         /\ CallStep(matchId, winnerId) )
       => /\ AllCompleted(TNext) =>
               /\ TNext.status = "completed"
               /\ Len(TNext.standings) > 0
               /\ TNext.winnerId = TNext.standings[1].participantId
          /\ ~AllCompleted(TNext) =>
               (TNext.status = "completed" => T.status = "completed")]_vars

Rounds == T.bracket[1].rounds
Elimination == Created /\ T.type = "elimination"

(* C22: in an elimination bracket, status is 'completed' and winnerId is   *)
(* set only in states where the final match has a winner.  (A result of    *)
(* the round before the final completes the tournament.)                   *)
C22_CompletedOnlyAfterFinal ==
  (Elimination /\ (T.status = "completed" \/ T.winnerId # Null))
    => Live(Rounds[Len(Rounds)][1].winner)

(* The slot of a match that position p of the round before feeds.          *)
SlotFedBy(match, p) == IF p % 2 = 0 THEN match.participant1 ELSE match.participant2

(* C23: a result naming a winner for the match at 0-based position p of a  *)
(* round r before the final puts the winner in slot p mod 2 of the match   *)
(* at position p div 2 of round r+1 and changes no other match or slot.    *)
C23_WinnerFeedsOneSlot ==
  [][Elimination =>
       \A matchId \in CallMatchIds : \A winnerId \in CallWinnerIds(matchId) :
          LET r == FindRound(Rounds, matchId)
          IN ( /\ r # 0 /\ r < Len(Rounds)
               /\ Live(winnerId)
               /\ CallStep(matchId, winnerId) )
             => LET k == FindMatch(Rounds[r], matchId)
                    p == k - 1
                    after == TNext.bracket[1].rounds
                    target == Rounds[r + 1][(p \div 2) + 1]
                IN /\ SlotFedBy(after[r + 1][(p \div 2) + 1], p) = winnerId
                   /\ after[r + 1][(p \div 2) + 1] =
                        (IF p % 2 = 0 THEN [target EXCEPT !.participant1 = winnerId]
                         ELSE [target EXCEPT !.participant2 = winnerId])
                   /\ after[r][k] = [Rounds[r][k] EXCEPT !.winner = winnerId,
                                                         !.score = SomeScore]
                   /\ \A r2 \in 1..Len(Rounds) : \A k2 \in 1..Len(Rounds[r2]) :
                        (<<r2, k2>> \notin {<<r, k>>, <<r + 1, (p \div 2) + 1>>})
                           => after[r2][k2] = Rounds[r2][k2]]_vars

(* The winner of the second semi-final of four stands in the second slot   *)
(* of the final.                                                           *)
C23_Witness ==
  /\ Elimination
  /\ NumParticipants = 4
  /\ ctlResult = [op |-> "result", ret |-> "true"]
  /\ Rounds[1][2].winner = "d"
  /\ Rounds[2][1].participant2 = "d"
  /\ Rounds[2][1].participant1 = Null

Completed == Elimination /\ T.status = "completed" /\ T.winnerId # Null

(* C24: in an elimination tournament of n >= 2 participants, if every      *)
(* match with two participants and no winner eventually gets a result,     *)
(* the tournament is eventually 'completed' with winnerId set.  (With two  *)
(* participants the only match is the final, whose result completes        *)
(* nothing.)                                                               *)
C24_EventuallyCompleted == [](Elimination => <>Completed)

(* A slot that no participant can reach: slot s of the match at 0-based    *)
(* position i of round r stands over the participants from position        *)
(* (2i+s) * 2^(r-1) on, and the build seats the participants in order.     *)
SlotDead(r, i, s) == (2 * i + s) * Pow2(r - 1) >= NumParticipants
SlotOf(match, s) == IF s = 0 THEN match.participant1 ELSE match.participant2

(* C25: a match with one live participant and an opposite slot that only   *)
(* byes feed is resolved for the live participant, and that winner stands  *)
(* in the next round's slot.  (The build resolves the byes of round 1 and  *)
(* advances nobody; nothing resolves a bye of a later round.)              *)
C25_ByesCascade ==
  Elimination =>
    \A r \in 1..Len(Rounds) : \A k \in 1..Len(Rounds[r]) : \A s \in {0, 1} :
       LET match == Rounds[r][k]
           live == SlotOf(match, 1 - s)
       IN (SlotDead(r, k - 1, s) /\ Live(live))
          => /\ match.winner = live
             /\ r < Len(Rounds) =>
                  SlotFedBy(Rounds[r + 1][((k - 1) \div 2) + 1], k - 1) = live

(* The decided matches that participant p lost.                            *)
LostBy(p) ==
  {m \in {<<r, k>> : r \in 1..Len(Rounds), k \in 1..Len(Rounds[1])} :
     /\ m[2] <= Len(Rounds[m[1]])
     /\ LET match == Rounds[m[1]][m[2]]
        IN /\ Live(match.winner)
           /\ p \in {match.participant1, match.participant2}
           /\ match.winner # p}

(* C28: whenever an elimination tournament is completed, every participant *)
(* but winnerId has lost exactly one decided match and winnerId has lost    *)
(* none.  (The tournament completes on a semi-final result, with the       *)
(* other half of the bracket unplayed.)                                    *)
C28_EveryoneElseLostOnce ==
  (Elimination /\ T.status = "completed") =>
    \A p \in ParticipantSet :
       Cardinality(LostBy(p)) = (IF p = T.winnerId THEN 0 ELSE 1)

-----------------------------------------------------------------------------
(* Claims about the router, checked under SpecRoute.                       *)

RCreated == tournaments # <<>>
RT == tournaments[1]

(* The step is a result submission by the organizer for an existing match. *)
SubmitStep(matchId, winnerId) ==
  LET k == FindTournament(TournamentId)
      j == FindRouteMatch(matches, matchId, TournamentId)
  IN /\ k # 0 /\ j # 0
     /\ response'.op = "result"
     /\ LET out == SubmitOutcome(tournaments, matches, k, j, winnerId, SomeScore)
        IN /\ tournaments' = out.tournaments
           /\ matches' = out.matches
           /\ response'.code = out.code

Failure(r) == r.code >= 400

(* C4: a second submission for a match that already has that winner is     *)
(* rejected and leaves matches, standings, status and winner as they were. *)
(* (The router accepts it and counts the result again.)                    *)
C4_ResubmitRejected ==
  [][\A matchId \in RouteMatchIdInputs : \A winnerId \in RouteWinnerInputs(matchId) :
       LET j == FindRouteMatch(matches, matchId, TournamentId)
       IN ( /\ j # 0
            /\ matches[j].status = "completed"
            /\ matches[j].winnerId = winnerId
            /\ SubmitStep(matchId, winnerId) )
          => ( /\ Failure(response')
               /\ tournaments' = tournaments
               /\ matches' = matches )]_vars

(* C6: a result submission is accepted only while the status is active; in *)
(* every other status it fails and changes no state.  (The router never    *)
(* reads the status.)                                                      *)
C6_SubmitOnlyWhileActive ==
  [][( /\ RCreated
       /\ response'.op = "result"
       /\ RT.status # "active" )
     => ( /\ Failure(response')
          /\ tournaments' = tournaments
          /\ matches' = matches )]_vars

(* C7: once the status is completed, no register, start or result request  *)
(* changes it.  (POST /:id/start sets 'active' whatever the status.)       *)
C7_CompletedIsFinal ==
  [][(RCreated /\ RT.status = "completed") => tournaments'[1].status = "completed"]_vars

(* The tally of a participant recomputed from the completed matches that   *)
(* have both of their participants.                                        *)
Recount(u) ==
  LET played == {j \in 1..Len(matches) :
                   /\ matches[j].tournamentId = RT.id
                   /\ matches[j].status = "completed"
                   /\ Defined(matches[j].participant1)
                   /\ Defined(matches[j].participant2)
                   /\ u \in {matches[j].participant1[1].userId,
                             matches[j].participant2[1].userId}}
      Other(j) == IF matches[j].participant1[1].userId = u
                  THEN matches[j].participant2[1].userId
                  ELSE matches[j].participant1[1].userId
      wins == Cardinality({j \in played : matches[j].winnerId = u})
      losses == Cardinality({j \in played : matches[j].winnerId = Other(j)})
      draws == Cardinality({j \in played : matches[j].winnerId = Draw})
  IN [userId |-> u, wins |-> wins, losses |-> losses, draws |-> draws,
      points |-> wins * RT.pointsSystem.win + losses * RT.pointsSystem.loss
                   + draws * RT.pointsSystem.draw]

(* C8: after any sequence of submissions, several for one match included,  *)
(* every standings entry equals the tally recomputed from the current      *)
(* results.  (The router adds each submission to the running tally.)       *)
C8_StandingsMatchHistory ==
  RCreated =>
    \A i \in 1..Len(RT.standings) : RT.standings[i] = Recount(RT.standings[i].userId)

SeedOf(u) == FindParticipant(RT, u)[1].seed

C10_FailureChangesNothing ==
  [][Failure(response') => (tournaments' = tournaments /\ matches' = matches)]_vars

Roster == RT.registeredParticipants
RosterIds == {Roster[i].userId : i \in 1..Len(Roster)}

(* The matches of the tournament in which users a and b meet.              *)
RouteMatchesBetween(a, b) ==
  {j \in 1..Len(matches) :
     /\ Defined(matches[j].participant1) /\ Defined(matches[j].participant2)
     /\ {matches[j].participant1[1].userId, matches[j].participant2[1].userId} = {a, b}}

(* C15: starting a round-robin tournament with n registered participants   *)
(* produces n*(n-1)/2 matches in which every pair of registered            *)
(* participants meets exactly once.  (generateFirstRoundMatches pairs      *)
(* neighbours in registration order: n/2 matches.)                         *)
C15_RouteRoundRobinAllPlayAll ==
  ( /\ RCreated
    /\ RT.bracketType = "round-robin"
    /\ response = [op |-> "start", code |-> 200]
    /\ nStarts = 1 )
  => /\ 2 * Len(matches) = Len(Roster) * (Len(Roster) - 1)
     /\ \A a, b \in RosterIds :
          a # b => Cardinality(RouteMatchesBetween(a, b)) = 1

(* C16: once the tournament is cancelled, a result submission fails and is *)
(* not applied, whichever way it was ordered against the cancellation.     *)
(* (The handlers run one at a time, and the result handler never reads     *)
(* the status that PUT /:id has set.)                                      *)
C16_CancelledRejectsResults ==
  [][( /\ RCreated
       /\ RT.status = "cancelled"
       /\ response'.op = "result" )
     => ( /\ Failure(response')
          /\ tournaments' = tournaments
          /\ matches' = matches )]_vars

C18_NoDuplicateRegistration ==
  /\ [](RCreated => \A i, j \in 1..Len(Roster) :
                       i # j => Roster[i].userId # Roster[j].userId)
  /\ [][RCreated =>
          \A userId \in UserInputs :
             (userId \in RosterIds /\ Register(TournamentId, userId))
             => ( /\ Failure(response')
                  /\ tournaments' = tournaments )]_vars

(* A second registration of the first user, refused while registration is  *)
(* open and places are left.                                               *)
C18_Witness ==
  /\ RCreated
  /\ response = [op |-> "register", code |-> 400]
  /\ RT.status = "registration"
  /\ Len(Roster) = 2
  /\ Len(Roster) < RT.participants

C20_UnknownMatchRejected ==
  [][RCreated =>
       \A matchId \in RouteMatchIdInputs, byOrganizer \in BOOLEAN :
          \A winnerId \in RouteWinnerInputs(matchId) :
             ( /\ \A j \in 1..Len(matches) : matches[j].id # matchId
               /\ SubmitResult(TournamentId, matchId, winnerId, byOrganizer) )
             => ( /\ Failure(response')
                  /\ tournaments' = tournaments
                  /\ matches' = matches )]_vars

(* The organizer's submission for an unknown match of a started            *)
(* tournament, answered 404.                                               *)
C20_Witness ==
  /\ RCreated
  /\ response = [op |-> "result", code |-> 404]
  /\ RT.status = "active"
  /\ matches # <<>>
  /\ nSubmits = 1

(* The standings entry of user u, a fresh one when u has none yet.         *)
EntryOf(standings, u) ==
  LET hits == {i \in 1..Len(standings) : standings[i].userId = u}
  IN IF hits = {} THEN [userId |-> u, wins |-> 0, losses |-> 0, draws |-> 0, points |-> 0]
     ELSE standings[CHOOSE i \in hits : TRUE]
EntrySet(standings) == {standings[i] : i \in 1..Len(standings)}

(* C26: a submission of winnerId 'draw' for a match adds one draw and the  *)
(* draw weight (1 by default) to both of its participants and leaves       *)
(* everybody's wins and losses as they were.                               *)
C26_DrawCreditsBoth ==
  [][RCreated =>
       \A matchId \in RouteMatchIdInputs :
          LET j == FindRouteMatch(matches, matchId, TournamentId)
          IN ( /\ j # 0
               /\ Defined(matches[j].participant1) /\ Defined(matches[j].participant2)
               /\ SubmitStep(matchId, Draw) )
             => LET u1 == matches[j].participant1[1].userId
                    u2 == matches[j].participant2[1].userId
                    before == RT.standings
                    after == tournaments'[1].standings
                    weight == RT.pointsSystem.draw
                IN /\ RT.pointsSystem = [win |-> 3, loss |-> 0, draw |-> 1] => weight = 1
                   /\ \A u \in {u1, u2} :
                        EntryOf(after, u) =
                          [EntryOf(before, u) EXCEPT !.draws = @ + 1, !.points = @ + weight]
                   /\ EntrySet(after) \ {EntryOf(after, u1), EntryOf(after, u2)}
                        = EntrySet(before) \ {EntryOf(before, u1), EntryOf(before, u2)}]_vars

(* A drawn first match under the default points: one draw and one point    *)
(* for each of the two.                                                    *)
C26_Witness ==
  /\ RCreated
  /\ response = [op |-> "result", code |-> 200]
  /\ RT.pointsSystem = [win |-> 3, loss |-> 0, draw |-> 1]
  /\ matches # <<>> /\ matches[1].winnerId = Draw
  /\ EntryOf(RT.standings, "a") =
       [userId |-> "a", wins |-> 0, losses |-> 0, draws |-> 1, points |-> 1]
  /\ EntryOf(RT.standings, "b") =
       [userId |-> "b", wins |-> 0, losses |-> 0, draws |-> 1, points |-> 1]

(* C29: no two stored matches have the same id; the matches of a round are *)
(* generated at most once.  (A second POST /:id/start pushes the first     *)
(* round again.)                                                           *)
C29_MatchIdsUnique ==
  \A i, j \in 1..Len(matches) : i # j => matches[i].id # matches[j].id

(* The standings that the results of ms give when they are submitted in    *)
(* the order of the array, from empty standings.                           *)
RECURSIVE ReplayStandings(_, _)
ReplayStandings(tournament, ms) ==
  IF ms = <<>> THEN <<>>
  ELSE updateTournamentStandings(
         [tournament EXCEPT !.standings =
            ReplayStandings(tournament, SubSeq(ms, 1, Len(ms) - 1))],
         ms[Len(ms)])

EachSubmittedOnce ==
  /\ nSubmits = 0 /\ nStarts = 1
  /\ \A j \in 1..Len(matches) :
        /\ matches[j].status = "completed"
        /\ Defined(matches[j].participant1) /\ Defined(matches[j].participant2)

(* C30: when every match has had its result submitted exactly once, the    *)
(* ordered standings and the winner taken from them are those of any other *)
(* order of submission, the order of the matches among them.  (Entries     *)
(* equal on points, wins and losses stand in the order in which they       *)
(* entered the standings, and a round-robin winner is the first entry.)    *)
C30_OrderIndependent ==
  (RCreated /\ RT.status = "completed" /\ EachSubmittedOnce) =>
    LET replayed == ReplayStandings(RT, matches)
    IN /\ RT.standings = replayed
       /\ RT.bracketType = "round-robin" => RT.winner = replayed[1].userId

(* The matches of tournament id, in the order of the matches array.        *)
RECURSIVE TournamentMatches(_, _)
TournamentMatches(ms, id) ==
  IF ms = <<>> THEN <<>>
  ELSE (IF Head(ms).tournamentId = id THEN <<Head(ms)>> ELSE <<>>)
         \o TournamentMatches(Tail(ms), id)

(* The step leaves every tournament but id, and its matches, as they were. *)
OthersUnchanged(id) ==
  \A k \in 1..Len(tournaments) :
     tournaments[k].id # id =>
        /\ tournaments'[k] = tournaments[k]
        /\ TournamentMatches(matches', tournaments[k].id)
             = TournamentMatches(matches, tournaments[k].id)

(* C21: a register, start or result request addressed to one tournament    *)
(* never changes the roster, matches, standings, currentRound, status or   *)
(* winner of another, in any interleaving of the requests for the two.     *)
C21_TournamentsIndependent ==
  [][Len(tournaments) = 2 =>
       \A id \in TwoIds :
          /\ \A userId \in TwoUserInputs(id) : Register(id, userId) => OthersUnchanged(id)
          /\ id \in TwoStartInputs /\ Start(id, TRUE) => OthersUnchanged(id)
          /\ \A matchId \in TwoMatchIdInputs : \A winnerId \in TwoWinnerInputs(matchId) :
                SubmitResult(id, matchId, winnerId, TRUE) => OthersUnchanged(id)]_vars

(* The first tournament played to its end, its final generated behind the  *)
(* matches of the second, which is active with nothing played.             *)
C21_Witness ==
  /\ Len(tournaments) = 2
  /\ response = [op |-> "result", code |-> 200]
  /\ tournaments[1].status = "completed"
  /\ tournaments[2].status = "active"
  /\ tournaments[2].standings = <<>>
  /\ Len(matches) = 5
  /\ matches[3].tournamentId = SecondTournamentId
  /\ matches[5].tournamentId = TournamentId
  /\ matches[3].status = "pending" /\ matches[4].status = "pending"

====
